---- MODULE Spec2Model ----
(***************************************************************************)
(* State-machine model of the MSSQL MCP server (bymcs/mssql-mcp).          *)
(*                                                                         *)
(* The repository holds two revisions of the server class MSSQLMCPServer:  *)
(*   src/src/index.ts        (server version "1.0.2")                      *)
(*   src/unnamed/part_001    (server version "1.0.3")                      *)
(* The variable `build` says which of the two is running; every handler    *)
(* is translated from both files and branches on `build` where they        *)
(* differ.                                                                 *)
(*                                                                         *)
(* JavaScript strings are sequences of lexemes (<<>> is the empty string), *)
(* so that the regular expressions and parseInt act on their characters.   *)
(* A handler is one action per synchronous stretch of code: it runs from   *)
(* its entry, or from the resolution of the promise it awaits, up to the   *)
(* next await or its return.                                               *)
(***************************************************************************)
EXTENDS Integers, Sequences, FiniteSets, TLC

VARIABLES build, env, pool, config, pools, call

vars == <<build, env, pool, config, pools, call>>

-----------------------------------------------------------------------------
(* Bounds of the model *)

\* pools created (new sql.ConnectionPool) in one run
MaxPools == 2

\* length of the query texts, in words
MaxQueryWords == 2

\* tool calls that may be in progress at once
MaxCalls == 2

\* length of the schema, table and procedure names a client sends
MaxNameLen == 1

\* length of the names and of the ORDER BY clauses the validators are tried on
MaxIdLen == 2

MaxOrderByLen == 3

-----------------------------------------------------------------------------
(* JavaScript values *)

Undefined == <<"undefined">>

NaN == <<"NaN">>

Num(n) == <<"number", n>>

Bool(b) == <<"boolean", b>>

IsNum(v) == Len(v) = 2 /\ v[1] = "number"

Val(v) == v[2]

\* a || b on strings and numbers: "", 0, NaN and undefined are falsy
Falsy(v) == v = Undefined \/ v = <<>> \/ v = NaN \/ v = Num(0)

Or(a, b) == IF Falsy(a) THEN b ELSE a

\* a ?? b
Nullish(a, b) == IF a = Undefined THEN b ELSE a

\* every string over alphabet A of length at most n
Strings(A, n) == UNION {[1..k -> A] : k \in 0..n}

Digits == <<"0", "1", "2", "3", "4", "5", "6", "7", "8", "9">>

IsDigit(c) == \E d \in 1..10 : Digits[d] = c

DigitVal(c) == (CHOOSE d \in 1..10 : Digits[d] = c) - 1

RECURSIVE LeadingDigits(_, _, _)
LeadingDigits(s, i, acc) ==
    IF i > Len(s) \/ ~IsDigit(s[i]) THEN <<i, acc>>
    ELSE LeadingDigits(s, i + 1, acc * 10 + DigitVal(s[i]))

RECURSIVE SkipSpace(_, _)
SkipSpace(s, i) == IF i <= Len(s) /\ s[i] = " " THEN SkipSpace(s, i + 1) ELSE i

\* parseInt(s): leading white space, an optional sign, then the longest run
\* of decimal digits; NaN when there is no digit
parseInt(s) ==
    LET i0 == SkipSpace(s, 1)
        neg == i0 <= Len(s) /\ s[i0] = "-"
        i1 == IF i0 <= Len(s) /\ s[i0] \in {"-", "+"} THEN i0 + 1 ELSE i0
        r == LeadingDigits(s, i1, 0)
    IN  IF r[1] = i1 THEN NaN
        ELSE Num(IF neg THEN 0 - r[2] ELSE r[2])

-----------------------------------------------------------------------------
(* The two revisions *)

V102 == "src/src/index.ts"

V103 == "src/unnamed/part_001"

Builds == {V102, V103}

-----------------------------------------------------------------------------
(* Process environment (dotenv.config + process.env) *)

EnvBase ==
    [DB_SERVER |-> <<"sqlhost">>, DB_USER |-> <<"sa">>, DB_PASSWORD |-> <<"pw">>,
     DB_PORT |-> Undefined, DB_TRUST_SERVER_CERTIFICATE |-> Undefined,
     DB_CONNECTION_TIMEOUT |-> Undefined, DB_REQUEST_TIMEOUT |-> Undefined]

Environments ==
    { EnvBase,
      [EnvBase EXCEPT !.DB_SERVER = Undefined],
      [EnvBase EXCEPT !.DB_SERVER = <<>>, !.DB_PORT = <<"8", "0">>],
      [EnvBase EXCEPT !.DB_PORT = <<"1", "4", "3", "4">>,
                      !.DB_TRUST_SERVER_CERTIFICATE = <<"true">>],
      [EnvBase EXCEPT !.DB_PORT = <<"0">>],
      [EnvBase EXCEPT !.DB_PORT = <<"7", "0", "0", "0", "0">>],
      [EnvBase EXCEPT !.DB_PORT = <<"x">>],
      [EnvBase EXCEPT !.DB_TRUST_SERVER_CERTIFICATE = <<"false">>,
                      !.DB_CONNECTION_TIMEOUT = <<"5", "0", "0">>],
      [EnvBase EXCEPT !.DB_REQUEST_TIMEOUT = <<"4", "0", "0", "0", "0", "0">>],
      [EnvBase EXCEPT !.DB_CONNECTION_TIMEOUT = <<"6", "0", "0", "0", "0">>,
                      !.DB_REQUEST_TIMEOUT = <<"1", "0", "0", "0">>] }

-----------------------------------------------------------------------------
(* connect_database: arguments and configuration *)

NoArgs ==
    [server |-> Undefined, user |-> Undefined, password |-> Undefined,
     port |-> Undefined, trustServerCertificate |-> Undefined]

\* arguments a client may send with connect_database
ConnectArgs ==
    { NoArgs,
      [NoArgs EXCEPT !.server = <<"otherhost">>, !.user = <<"eve">>,
                     !.password = <<"evepw">>],
      [NoArgs EXCEPT !.port = Num(1), !.trustServerCertificate = Bool(FALSE)] }

DefaultPort == 1433

DefaultTimeout == 30000

MinPort == 1

MaxPort == 65535

MinTimeout == 1000

MaxConnectionTimeout == 60000

MaxRequestTimeout == 300000

\* process.env.X ? parseInt(process.env.X) : dflt
EnvInt(v, dflt) == IF Falsy(v) THEN Num(dflt) ELSE parseInt(v)

\* the object literal handed to ConfigSchema.parse
ConfigInput(b, args, e) ==
    IF b = V102
    THEN [server |-> Or(args.server, e.DB_SERVER),
          user |-> Or(args.user, e.DB_USER),
          password |-> Or(args.password, e.DB_PASSWORD),
          port |-> Or(args.port, EnvInt(e.DB_PORT, DefaultPort)),
          trustServerCertificate |->
              Nullish(args.trustServerCertificate,
                      Bool(e.DB_TRUST_SERVER_CERTIFICATE = <<"true">>)),
          connectionTimeout |-> EnvInt(e.DB_CONNECTION_TIMEOUT, DefaultTimeout),
          requestTimeout |-> EnvInt(e.DB_REQUEST_TIMEOUT, DefaultTimeout)]
    ELSE [server |-> e.DB_SERVER,
          user |-> e.DB_USER,
          password |-> e.DB_PASSWORD,
          port |-> EnvInt(e.DB_PORT, DefaultPort),
          trustServerCertificate |-> Bool(e.DB_TRUST_SERVER_CERTIFICATE = <<"true">>),
          connectionTimeout |-> EnvInt(e.DB_CONNECTION_TIMEOUT, DefaultTimeout),
          requestTimeout |-> EnvInt(e.DB_REQUEST_TIMEOUT, DefaultTimeout)]

\* a schema with z.number() alone, without .min() and .max()
InRange_Any(v, lo, hi) == IsNum(v)

\* z.number().int().min(lo).max(hi)
InRange(v, lo, hi) == IsNum(v) /\ Val(v) >= lo /\ Val(v) <= hi

\* ConfigSchema.parse succeeds, and the handler's `if (!config.server)` passes
ConfigValid(b, in) ==
    /\ in.server # Undefined
    /\ ~Falsy(in.server)
    /\ IF b = V102
       THEN /\ IsNum(in.port)
            /\ IsNum(in.connectionTimeout)
            /\ IsNum(in.requestTimeout)
       ELSE /\ InRange(in.port, MinPort, MaxPort)
            /\ InRange(in.connectionTimeout, MinTimeout, MaxConnectionTimeout)
            /\ InRange(in.requestTimeout, MinTimeout, MaxRequestTimeout)

\* a parse that puts the default timeouts in place of the values it was given
ConfigSchema_DefaultTimeouts(in) ==
    [server |-> in.server, user |-> in.user, password |-> in.password,
     port |-> Val(in.port),
     trustServerCertificate |-> Val(in.trustServerCertificate),
     connectionTimeout |-> DefaultTimeout,
     requestTimeout |-> DefaultTimeout]

\* the DatabaseConfig that ConfigSchema.parse returns
ConfigSchema(in) ==
    [server |-> in.server, user |-> in.user, password |-> in.password,
     port |-> Val(in.port),
     trustServerCertificate |-> Val(in.trustServerCertificate),
     connectionTimeout |-> Val(in.connectionTimeout),
     requestTimeout |-> Val(in.requestTimeout)]

NoConfig == [server |-> Undefined]

\* the options of `new sql.ConnectionPool({...})`
PoolOptions(b, cfg) ==
    [server |-> cfg.server, user |-> cfg.user, password |-> cfg.password,
     port |-> cfg.port,
     trustServerCertificate |-> cfg.trustServerCertificate,
     encrypt |-> IF b = V103 THEN Bool(~cfg.trustServerCertificate) ELSE Undefined,
     connectionTimeout |-> cfg.connectionTimeout,
     requestTimeout |-> cfg.requestTimeout]

-----------------------------------------------------------------------------
(* State *)

Procs == 1..MaxCalls

\* the payload a tool call returns: isError is the payload's flag, kind names
\* the message, info is the JSON body of a success
Result(isError, kind, info) == [isError |-> isError, kind |-> kind, info |-> info]

NoResult == Result(FALSE, "none", <<>>)

\* a tool call that has not started
IdleCall ==
    [tool |-> "none", pc |-> "idle", args |-> <<>>, cfg |-> NoConfig,
     prev |-> 0, target |-> 0, err |-> "none", stmt |-> <<>>, idents |-> <<>>, bound |-> {},
     nRequest |-> 0, nConnect |-> 0, nClose |-> 0, nNew |-> 0, nQuery |-> 0,
     result |-> NoResult]

\* a handler is entered: prev is the pool stored at that moment
Begin(tool, args) == [IdleCall EXCEPT !.tool = tool, !.args = args, !.prev = pool]

\* a handler that ends without handing back a payload
Done_NoPayload(c, res) == [c EXCEPT !.pc = "done"]

\* `return {content: [...]}`: the handler ends with a payload
Done(c, res) == [c EXCEPT !.pc = "done", !.result = res]

\* a catch block that returns its message without the error flag
Failed_Unflagged(c, kind) == Done(c, Result(FALSE, kind, <<>>))

\* the catch block of a handler: `return {content: [...], isError: true}`
Failed(c, kind) == Done(c, Result(TRUE, kind, <<>>))

\* private pool / private config, and the pools the driver has been asked for
Init ==
    /\ build \in Builds
    /\ env \in Environments
    /\ pool = 0
    /\ config = NoConfig
    /\ pools = <<>>
    /\ call = [p \in Procs |-> IdleCall]

-----------------------------------------------------------------------------
(* The driver: sql.ConnectionPool *)

\* new sql.ConnectionPool(options)
NewPool(opts) == [state |-> "created", opts |-> opts]

\* pool.connect() has been called on a pool just created
Connecting(ps, id) == [ps EXCEPT ![id].state = "connecting"]

\* pool.connect() settles
ConnectSettled(ps, id, ok) ==
    [ps EXCEPT ![id].state = IF ok THEN "connected" ELSE "failed"]

\* pool.close() settles; a close that rejects leaves the pool as it was
CloseSettled(ps, id, ok) ==
    [ps EXCEPT ![id].state = IF ok THEN "closed" ELSE @]

\* pool.connected
Connected(id) == id # 0 /\ pools[id].state = "connected"

-----------------------------------------------------------------------------
(* connect(config), called by connect_database *)

\* `this.pool = new sql.ConnectionPool({...}); ... await this.pool.connect()`
connect_open(p, c) ==
    LET id == Len(pools) + 1
    IN  /\ pools' = Connecting(Append(pools, NewPool(PoolOptions(build, c.cfg))), id)
        /\ pool' = id
        /\ call' = [call EXCEPT ![p] =
               [c EXCEPT !.pc = "connect_connecting", !.target = id,
                         !.nNew = @ + 1, !.nConnect = @ + 1]]

\* the catch block of connect() in part_001; index.ts has none and the error
\* leaves connect() at once
connect_catch(p, c, kind) ==
    IF build = V102
    THEN /\ call' = [call EXCEPT ![p] = Failed(c, kind)]
         /\ UNCHANGED <<pool, config>>
    ELSE IF pool # 0
         THEN /\ call' = [call EXCEPT ![p] =
                    [c EXCEPT !.pc = "connect_failclosing", !.target = pool,
                              !.err = kind, !.nClose = @ + 1]]
              /\ UNCHANGED <<pool, config>>
         ELSE /\ config' = NoConfig
              /\ call' = [call EXCEPT ![p] = Failed(c, kind)]
              /\ UNCHANGED pool

\* connect() that never sees an existing pool
HasPool_Never(id) == FALSE

\* `if (this.pool)` at the head of connect()
HasPool(id) == id # 0

\* the handler up to its first await
connect_database(p) ==
    /\ call[p].pc = "idle"
    /\ \E args \in ConnectArgs :
         LET in == ConfigInput(build, args, env)
             c == Begin("connect_database", args)
         IN  IF ~ConfigValid(build, in)
             THEN /\ call' = [call EXCEPT ![p] = Failed(c, "config")]
                  /\ UNCHANGED <<pool, config, pools>>
             ELSE /\ Len(pools) < MaxPools
                  /\ IF HasPool(pool)
                     THEN /\ call' = [call EXCEPT ![p] =
                                [c EXCEPT !.pc = "connect_closing", !.target = pool,
                                          !.cfg = ConfigSchema(in), !.nClose = 1]]
                          /\ UNCHANGED <<pool, config, pools>>
                     ELSE /\ connect_open(p, [c EXCEPT !.cfg = ConfigSchema(in)])
                          /\ UNCHANGED config
    /\ UNCHANGED <<build, env>>

\* `await this.pool.close()` of the existing pool settles
connect_closed(p) ==
    /\ call[p].pc = "connect_closing"
    /\ \E ok \in BOOLEAN :
         LET ps == CloseSettled(pools, call[p].target, ok)
         IN  IF ok
             THEN /\ pools' = Connecting(
                         Append(ps, NewPool(PoolOptions(build, call[p].cfg))),
                         Len(ps) + 1)
                  /\ pool' = Len(ps) + 1
                  /\ call' = [call EXCEPT ![p] =
                         [call[p] EXCEPT !.pc = "connect_connecting",
                                         !.target = Len(ps) + 1,
                                         !.nNew = @ + 1, !.nConnect = @ + 1]]
                  /\ UNCHANGED config
             ELSE /\ pools' = ps
                  /\ connect_catch(p, call[p], "close_failed")
    /\ UNCHANGED <<build, env>>

\* `await this.pool.connect()` settles
connect_connected(p) ==
    /\ call[p].pc = "connect_connecting"
    /\ \E ok \in BOOLEAN :
         /\ pools' = ConnectSettled(pools, call[p].target, ok)
         /\ IF ok
            THEN /\ config' = call[p].cfg
                 /\ call' = [call EXCEPT ![p] =
                        Done(call[p], Result(FALSE, "connected", <<>>))]
                 /\ UNCHANGED pool
            ELSE connect_catch(p, call[p], "connect_failed")
    /\ UNCHANGED <<build, env>>

\* the close inside the catch block settles (its own failure is swallowed)
connect_failclosed(p) ==
    /\ call[p].pc = "connect_failclosing"
    /\ \E ok \in BOOLEAN :
         pools' = CloseSettled(pools, call[p].target, ok)
    /\ pool' = 0
    /\ config' = NoConfig
    /\ call' = [call EXCEPT ![p] = Failed(call[p], call[p].err)]
    /\ UNCHANGED <<build, env>>

-----------------------------------------------------------------------------
(* disconnect_database and connection_status *)

disconnect_database(p) ==
    /\ call[p].pc = "idle"
    /\ LET c == Begin("disconnect_database", <<>>)
       IN  IF pool # 0
           THEN call' = [call EXCEPT ![p] =
                    [c EXCEPT !.pc = "disconnect_closing", !.target = pool,
                              !.nClose = 1]]
           ELSE call' = [call EXCEPT ![p] =
                    Done(c, Result(FALSE, "disconnected", <<>>))]
    /\ UNCHANGED <<build, env, pool, config, pools>>

\* a disconnect that forgets `this.config = null`
Disconnected_KeepsConfig == [pool |-> 0, config |-> config]

\* `this.pool = null; this.config = null`
Disconnected == [pool |-> 0, config |-> NoConfig]

disconnect_closed(p) ==
    /\ call[p].pc = "disconnect_closing"
    /\ \E ok \in BOOLEAN :
         /\ pools' = CloseSettled(pools, call[p].target, ok)
         /\ IF ok
            THEN /\ pool' = Disconnected.pool
                 /\ config' = Disconnected.config
                 /\ call' = [call EXCEPT ![p] =
                        Done(call[p], Result(FALSE, "disconnected", <<>>))]
            ELSE /\ call' = [call EXCEPT ![p] = Failed(call[p], "close_failed")]
                 /\ UNCHANGED <<pool, config>>
    /\ UNCHANGED <<build, env>>

NotConfigured == <<"Not configured">>

\* the status object of connection_status
Status ==
    [connected |-> Connected(pool),
     server |-> IF config = NoConfig THEN NotConfigured
                ELSE Or(config.server, NotConfigured)]

connection_status(p) ==
    /\ call[p].pc = "idle"
    /\ call' = [call EXCEPT ![p] =
           Done(Begin("connection_status", <<>>), Result(FALSE, "status", Status))]
    /\ UNCHANGED <<build, env, pool, config, pools>>

\* the payload goes back to the client
Return(p) ==
    /\ call[p].pc = "done"
    /\ call' = [call EXCEPT ![p] = IdleCall]
    /\ UNCHANGED <<build, env, pool, config, pools>>

-----------------------------------------------------------------------------
(* Regular expressions *)

Letters ==
    {"a", "b", "c", "d", "e", "f", "g", "h", "i", "j", "k", "l", "m",
     "n", "o", "p", "q", "r", "s", "t", "u", "v", "w", "x", "y", "z",
     "A", "B", "C", "D", "E", "F", "G", "H", "I", "J", "K", "L", "M",
     "N", "O", "P", "Q", "R", "S", "T", "U", "V", "W", "X", "Y", "Z"}

DigitChars == {Digits[d] : d \in 1..10}

\* the lexemes that spell ASC or DESC in some letter case; no other run of
\* lexemes of the model's alphabets spells one of them
AscDesc == {"ASC", "DESC", "asc", "desc", "Desc"}

\* [a-zA-Z0-9_]
WordClass == Letters \cup DigitChars \cup {"_"}

\* [\[\]a-zA-Z0-9_.] (a keyword lexeme is a run of letters)
OrderByClass == WordClass \cup {"[", "]", "."} \cup AscDesc

\* \s
SpaceClass == {" ", "\t", "\n"}

\* (ASC|DESC) under the i flag
KeywordClass == AscDesc

\* The matchers below take the set P of positions a match may have reached
\* and return the set of positions it may reach next (position Len(s) + 1 is
\* the end of the string).

\* one lexeme of class C
One(s, P, C) == {i + 1 : i \in {j \in P : j <= Len(s) /\ s[j] \in C}}

\* C+
Plus(s, P, C) ==
    {j \in 2..(Len(s) + 1) :
        \E i \in P : i < j /\ \A k \in i..(j - 1) : s[k] \in C}

\* C*
Star(s, P, C) == P \cup Plus(s, P, C)

\* the literal ,
Comma == {","}

\* [\[\]a-zA-Z0-9_.]+(\s+(ASC|DESC))?
OrderByItem(s, P) ==
    LET a == Plus(s, P, OrderByClass)
    IN  a \cup One(s, Plus(s, a, SpaceClass), KeywordClass)

\* (\s*,\s*[\[\]a-zA-Z0-9_.]+(\s+(ASC|DESC))?)*
RECURSIVE OrderByRest(_, _)
OrderByRest(s, P) ==
    LET more == OrderByItem(s, Star(s, One(s, Star(s, P, SpaceClass), Comma),
                                    SpaceClass))
    IN  IF more \subseteq P THEN P ELSE OrderByRest(s, P \cup more)

\* the pattern without its $ anchor
tableNamePattern_Unanchored(s) == Plus(s, {1}, WordClass) # {}

\* /^[a-zA-Z0-9_]+$/.test(s)
tableNamePattern(s) == (Len(s) + 1) \in Plus(s, {1}, WordClass)

\* /^(item)(\s*,\s*item)*$/i.test(s)
orderByPattern(s) == (Len(s) + 1) \in OrderByRest(s, OrderByItem(s, {1}))

-----------------------------------------------------------------------------
(* Arguments of the query tools *)

\* schema, table and procedure names a client sends
NameChars == {"a", ";"}

Names == Strings(NameChars, MaxNameLen)

\* z.record(z.any()): the keys of the object
Params(keys) == <<"record", keys>>

Keys(v) == v[2]

QueryWords == {"SELECT", "shutdown", "Xp_CmdShell", "RECONFIGURE"}

Queries == Strings(QueryWords, MaxQueryWords)

ParamChoices == {Undefined, Params({}), Params({"p"})}

ExecuteQueryArgs ==
    {[query |-> q, parameters |-> Undefined] : q \in Queries}
    \cup {[query |-> <<"SELECT">>, parameters |-> ps] : ps \in ParamChoices}

ObjectTypes == {"tables", "views", "procedures", "functions", "all"}

GetSchemaArgs ==
    {[objectType |-> t, schemaName |-> Undefined] : t \in ObjectTypes}
    \cup {[objectType |-> t, schemaName |-> n] :
            t \in {"tables", "procedures"}, n \in Names}

DescribeTableArgs ==
    {[tableName |-> t, schemaName |-> Undefined] : t \in Names}

ExecuteProcedureArgs ==
    {[procedureName |-> n, schemaName |-> Undefined, parameters |-> ps] :
        n \in Names, ps \in ParamChoices}
    \cup {[procedureName |-> <<"a">>, schemaName |-> n, parameters |-> Undefined] :
        n \in Names}

TableArgs ==
    [tableName |-> <<"a">>, schemaName |-> Undefined, limit |-> Undefined,
     offset |-> Undefined, whereClause |-> Undefined, orderBy |-> Undefined,
     parameters |-> Undefined]

SampleOrderBys ==
    {<<>>, <<"c">>, <<"c", " ", "DESC">>, <<"c", ";">>, <<"[", "c">>}

SampleLimits == {Num(0), Num(10), Num(10001)}

SampleOffsets == {Num(0 - 1), Num(10)}

SampleWheres == {Undefined, <<>>, <<"x = @p">>}

\* one group of arguments at a time departs from TableArgs
GetTableDataArgs ==
    {[TableArgs EXCEPT !.tableName = t] : t \in Names}
    \cup {[TableArgs EXCEPT !.schemaName = n] : n \in Names}
    \cup {[TableArgs EXCEPT !.orderBy = o] : o \in SampleOrderBys}
    \cup {[TableArgs EXCEPT !.limit = l] : l \in SampleLimits}
    \cup {[TableArgs EXCEPT !.offset = o] : o \in SampleOffsets}
    \cup {[TableArgs EXCEPT !.whereClause = w, !.parameters = ps] :
            w \in SampleWheres, ps \in ParamChoices}

DefaultSchema == <<"d", "b", "o">>

DefaultLimit == 100

DefaultOffset == 0

MinLimit == 1

MaxLimit == 10000

MinOffset == 0

\* .optional().default(d)
Default(v, d) == IF v = Undefined THEN d ELSE v

\* the zod shape of get_table_data accepts the arguments (checked by the MCP
\* SDK before the handler runs); index.ts checks the types only
TableShapeOK(b, a) ==
    b = V103 =>
        /\ Len(a.tableName) >= 1
        /\ tableNamePattern(a.tableName)
        /\ a.schemaName # Undefined => tableNamePattern(a.schemaName)
        /\ a.limit # Undefined => Val(a.limit) >= MinLimit /\ Val(a.limit) <= MaxLimit
        /\ a.offset # Undefined => Val(a.offset) >= MinOffset

\* the destructured arguments, defaults applied; index.ts has no `parameters`
TableParsed(b, a) ==
    [a EXCEPT !.schemaName = Default(@, DefaultSchema),
              !.limit = Val(Default(@, Num(DefaultLimit))),
              !.offset = Val(Default(@, Num(DefaultOffset))),
              !.parameters = IF b = V102 THEN Undefined ELSE @]

\* the zod shape of execute_query: query is .min(1) in part_001
QueryShapeOK(b, a) == b = V103 => Len(a.query) >= 1

\* a handler that skips the loop over Object.entries(parameters)
Inputs_None(ps) == {}

\* `for (const [key, value] of Object.entries(parameters)) request.input(key, value)`
Inputs(ps) == IF ps = Undefined THEN {} ELSE Keys(ps)

\* a builder that appends ORDER BY only when the caller gave one
TableQuery_NoDefaultOrder(a) ==
    <<"SELECT * FROM [">> \o a.schemaName \o <<"].[">> \o a.tableName \o <<"]">>
    \o (IF Falsy(a.whereClause) THEN <<>> ELSE <<" WHERE ">> \o a.whereClause)
    \o (IF Falsy(a.orderBy) THEN <<>> ELSE <<" ORDER BY ">> \o a.orderBy)
    \o <<" OFFSET ", ToString(a.offset), " ROWS FETCH NEXT ", ToString(a.limit),
         " ROWS ONLY">>

\* the text of the statement get_table_data builds
TableQuery(a) ==
    <<"SELECT * FROM [">> \o a.schemaName \o <<"].[">> \o a.tableName \o <<"]">>
    \o (IF Falsy(a.whereClause) THEN <<>> ELSE <<" WHERE ">> \o a.whereClause)
    \o (IF Falsy(a.orderBy) THEN <<" ORDER BY (SELECT NULL)">>
        ELSE <<" ORDER BY ">> \o a.orderBy)
    \o <<" OFFSET ", ToString(a.offset), " ROWS FETCH NEXT ", ToString(a.limit),
         " ROWS ONLY">>

\* the filter get_schema adds to each of its SELECTs when schemaName is given
SchemaFilter(sec, n) ==
    IF Falsy(n) THEN <<>>
    ELSE IF sec \in {"tables", "views"}
         THEN <<" WHERE TABLE_SCHEMA = '">> \o n \o <<"'">>
         ELSE <<" AND ROUTINE_SCHEMA = '">> \o n \o <<"'">>

SchemaSections(t) ==
    IF t = "all" THEN <<"tables", "views", "procedures", "functions">> ELSE <<t>>

RECURSIVE SchemaQueryFrom(_, _, _)
SchemaQueryFrom(secs, i, n) ==
    IF i > Len(secs) THEN <<" ORDER BY TABLE_SCHEMA, TABLE_NAME">>
    ELSE (IF i > 1 THEN <<" UNION ALL ">> ELSE <<>>)
         \o <<"SELECT FROM ", secs[i]>> \o SchemaFilter(secs[i], n)
         \o SchemaQueryFrom(secs, i + 1, n)

\* the text of the statement get_schema builds
SchemaQuery(a) == SchemaQueryFrom(SchemaSections(a.objectType), 1, a.schemaName)

\* the name execute_procedure hands to request.execute
ProcedureName(a) ==
    <<"[">> \o Default(a.schemaName, DefaultSchema) \o <<"].[">>
    \o a.procedureName \o <<"]">>

DescribeQuery == <<"SELECT FROM INFORMATION_SCHEMA.COLUMNS WHERE TABLE_NAME = @tableName AND TABLE_SCHEMA = @schemaName">>

DatabasesQuery == <<"SELECT FROM sys.databases ORDER BY name">>

-----------------------------------------------------------------------------
(* The query tools *)

\* `this.pool.request()`, request.input for each key of `bound`, then
\* request.query(text) or request.execute(text): the handler awaits the driver
Send(p, c, text, idents, bound) ==
    call' = [call EXCEPT ![p] =
        [c EXCEPT !.pc = "query_waiting", !.target = pool, !.stmt = text,
                  !.idents = idents, !.bound = bound,
                  !.nRequest = @ + 1, !.nQuery = @ + 1]]

\* the handler of execute_query, its arguments drawn from Args
execute_query_from(p, Args) ==
    /\ call[p].pc = "idle"
    /\ \E a \in Args :
         LET c == Begin("execute_query", a)
         IN  IF ~QueryShapeOK(build, a)
             THEN call' = [call EXCEPT ![p] = Failed(c, "invalid_params")]
             ELSE IF pool = 0
             THEN call' = [call EXCEPT ![p] = Failed(c, "no_connection")]
             ELSE Send(p, c, a.query, <<>>, Inputs(a.parameters))
    /\ UNCHANGED <<build, env, pool, config, pools>>

execute_query(p) == execute_query_from(p, ExecuteQueryArgs)

get_schema(p) ==
    /\ call[p].pc = "idle"
    /\ \E a \in GetSchemaArgs :
         LET c == Begin("get_schema", a)
         IN  IF pool = 0
             THEN call' = [call EXCEPT ![p] = Failed(c, "no_connection")]
             ELSE Send(p, c, SchemaQuery(a),
                       IF Falsy(a.schemaName) THEN <<>> ELSE <<a.schemaName>>, {})
    /\ UNCHANGED <<build, env, pool, config, pools>>

describe_table(p) ==
    /\ call[p].pc = "idle"
    /\ \E a \in DescribeTableArgs :
         LET c == Begin("describe_table", a)
         IN  IF pool = 0
             THEN call' = [call EXCEPT ![p] = Failed(c, "no_connection")]
             ELSE Send(p, c, DescribeQuery, <<>>, {"tableName", "schemaName"})
    /\ UNCHANGED <<build, env, pool, config, pools>>

\* the handler of get_table_data, its arguments drawn from Args
get_table_data_from(p, Args) ==
    /\ call[p].pc = "idle"
    /\ \E a \in Args :
         LET c == Begin("get_table_data", a)
             d == TableParsed(build, a)
             bound == IF Falsy(d.whereClause) THEN {} ELSE Inputs(d.parameters)
         IN  IF ~TableShapeOK(build, a)
             THEN call' = [call EXCEPT ![p] = Failed(c, "invalid_params")]
             ELSE IF pool = 0
             THEN call' = [call EXCEPT ![p] = Failed(c, "no_connection")]
             ELSE IF build = V103 /\ ~tableNamePattern(d.tableName)
             THEN call' = [call EXCEPT ![p] = Failed(c, "invalid_table_name")]
             ELSE IF build = V103 /\ ~tableNamePattern(d.schemaName)
             THEN call' = [call EXCEPT ![p] = Failed(c, "invalid_schema_name")]
             ELSE IF build = V103 /\ ~Falsy(d.orderBy) /\ ~orderByPattern(d.orderBy)
             THEN call' = [call EXCEPT ![p] =
                      Failed([c EXCEPT !.target = pool, !.bound = bound,
                                       !.nRequest = 1], "invalid_order_by")]
             ELSE Send(p, c, TableQuery(d), <<d.schemaName, d.tableName>>, bound)
    /\ UNCHANGED <<build, env, pool, config, pools>>

get_table_data(p) == get_table_data_from(p, GetTableDataArgs)

\* the handler of execute_procedure, its arguments drawn from Args
execute_procedure_from(p, Args) ==
    /\ call[p].pc = "idle"
    /\ \E a \in Args :
         LET c == Begin("execute_procedure", a)
         IN  IF pool = 0
             THEN call' = [call EXCEPT ![p] = Failed(c, "no_connection")]
             ELSE Send(p, c, ProcedureName(a),
                       <<Default(a.schemaName, DefaultSchema), a.procedureName>>,
                       Inputs(a.parameters))
    /\ UNCHANGED <<build, env, pool, config, pools>>

execute_procedure(p) == execute_procedure_from(p, ExecuteProcedureArgs)

list_databases(p) ==
    /\ call[p].pc = "idle"
    /\ LET c == Begin("list_databases", <<>>)
       IN  IF pool = 0
           THEN call' = [call EXCEPT ![p] = Failed(c, "no_connection")]
           ELSE Send(p, c, DatabasesQuery, <<>>, {})
    /\ UNCHANGED <<build, env, pool, config, pools>>

\* `parameters ? Object.keys(parameters).length : 0`
ParametersUsed(d) ==
    IF d.parameters = Undefined THEN 0 ELSE Cardinality(Keys(d.parameters))

\* the metadata object of get_table_data's payload in part_001
Metadata(d) ==
    [hasWhereClause |-> ~Falsy(d.whereClause),
     parametersUsed |-> ParametersUsed(d)]

\* what the payload of a settled query says beside the rows
Payload(b, c) ==
    IF b = V103 /\ c.tool = "get_table_data"
    THEN [metadata |-> Metadata(TableParsed(b, c.args))]
    ELSE <<>>

\* a handler that drops the stored pool when its query fails
query_settled_Drops(p) ==
    /\ call[p].pc = "query_waiting"
    /\ \E ok \in BOOLEAN :
         /\ ok => Connected(call[p].target)
         /\ call' = [call EXCEPT ![p] =
                IF ok THEN Done(call[p], Result(FALSE, "rows", <<>>))
                ELSE Failed(call[p], "query_failed")]
         /\ pool' = IF ok THEN pool ELSE 0
    /\ UNCHANGED <<build, env, config, pools>>

\* the driver settles request.query / request.execute; a pool that is not
\* connected rejects it
query_settled(p) ==
    /\ call[p].pc = "query_waiting"
    /\ \E ok \in BOOLEAN :
         /\ ok => Connected(call[p].target)
         /\ call' = [call EXCEPT ![p] =
                IF ok THEN Done(call[p], Result(FALSE, "rows", Payload(build, call[p])))
                ELSE Failed(call[p], "query_failed")]
    /\ UNCHANGED <<build, env, pool, config, pools>>

-----------------------------------------------------------------------------
(* Specification: tool calls served one at a time *)

Main == CHOOSE p \in Procs : \A q \in Procs : p <= q

Next ==
    \/ connect_database(Main)
    \/ connect_closed(Main)
    \/ connect_connected(Main)
    \/ connect_failclosed(Main)
    \/ disconnect_database(Main)
    \/ disconnect_closed(Main)
    \/ connection_status(Main)
    \/ execute_query(Main)
    \/ get_schema(Main)
    \/ describe_table(Main)
    \/ get_table_data(Main)
    \/ execute_procedure(Main)
    \/ list_databases(Main)
    \/ query_settled(Main)
    \/ Return(Main)

Spec == Init /\ [][Next]_vars

\* the revision of part_001 alone
InitPart001 == Init /\ build = V103

SpecPart001 == InitPart001 /\ [][Next]_vars

-----------------------------------------------------------------------------
(* Specification: the validators of get_table_data (part_001) tried on every
   short string *)

IdentChars == {"a", "Z", "7", "_", ";", "'", " ", "-", "\n"}

Identifiers == Strings(IdentChars, MaxIdLen)

OrderByChars == {"c", "[", "]", ".", ",", " ", ";", "ASC", "desc"}

OrderBys == Strings(OrderByChars, MaxOrderByLen)

ProbeArgs ==
    {[TableArgs EXCEPT !.tableName = t] : t \in Identifiers}
    \cup {[TableArgs EXCEPT !.schemaName = n] : n \in Identifiers}
    \cup {[TableArgs EXCEPT !.orderBy = o] : o \in OrderBys}

get_table_data_probe(p) == get_table_data_from(p, ProbeArgs)

InitProbe == Init /\ build = V103 /\ env = EnvBase

NextProbe ==
    \/ connect_database(Main)
    \/ connect_connected(Main)
    \/ connect_failclosed(Main)
    \/ get_table_data_probe(Main)
    \/ query_settled(Main)
    \/ Return(Main)

SpecProbe == InitProbe /\ [][NextProbe]_vars

-----------------------------------------------------------------------------
(* Vocabulary of the properties *)

ExecutionTools ==
    {"execute_query", "get_schema", "describe_table", "get_table_data",
     "execute_procedure", "list_databases"}

\* the server-level operations the README lists as blocked
BlockedTokens == {"SHUTDOWN", "XP_CMDSHELL", "RECONFIGURE"}

UpperCase(w) ==
    CASE w = "shutdown" -> "SHUTDOWN"
      [] w = "Xp_CmdShell" -> "XP_CMDSHELL"
      [] OTHER -> w

ContainsBlocked(q) == \E i \in 1..Len(q) : UpperCase(q[i]) \in BlockedTokens

\* one or more ASCII letters, digits and underscores
IsIdentifier(n) ==
    /\ Len(n) >= 1
    /\ \A i \in 1..Len(n) : n[i] \in Letters \cup DigitChars \cup {"_"}

\* the name arguments of a get_table_data call are identifiers
NamesValid(a) ==
    /\ IsIdentifier(a.tableName)
    /\ a.schemaName = Undefined \/ IsIdentifier(a.schemaName)

\* the payloads that report a rejected argument
Rejections ==
    {"invalid_params", "invalid_table_name", "invalid_schema_name",
     "invalid_order_by"}

NameRejections == Rejections \ {"invalid_order_by"}

\* A comma-separated list of bracketed-or-plain dotted identifiers, each
\* optionally followed by ASC or DESC: the grammar read off the claim, parsed
\* with the matchers of the regular expressions.
PlainChar == WordClass \cup AscDesc

LeftBracket == {"["}

RightBracket == {"]"}

Dot == {"."}

\* name or [name]
IdentifierPart(s, P) ==
    Plus(s, P, PlainChar)
    \cup One(s, Plus(s, One(s, P, LeftBracket), PlainChar), RightBracket)

RECURSIVE DottedRest(_, _)
DottedRest(s, P) ==
    LET more == IdentifierPart(s, One(s, P, Dot))
    IN  IF more \subseteq P THEN P ELSE DottedRest(s, P \cup more)

ListItem(s, P) ==
    LET a == DottedRest(s, IdentifierPart(s, P))
    IN  a \cup One(s, Plus(s, a, SpaceClass), KeywordClass)

RECURSIVE ListRest(_, _)
ListRest(s, P) ==
    LET more == ListItem(s, Star(s, One(s, Star(s, P, SpaceClass), Comma),
                                 SpaceClass))
    IN  IF more \subseteq P THEN P ELSE ListRest(s, P \cup more)

WellFormedOrderBy(s) == (Len(s) + 1) \in ListRest(s, ListItem(s, {1}))

\* the statement of call p went to the driver on a connected pool
Reached(p) == call[p].nQuery > 0 /\ Connected(call[p].target)

-----------------------------------------------------------------------------
(* C1..C10 *)

\* C1: an execute_query call whose statement holds a blocked
\* server-administration token, in any letter case and at any position, is
\* rejected with an error and never reaches the driver: no request is created
\* and no query is sent for it. (Any error payload counts as the rejection.)
C1_BlockedStatementNeverSent ==
    \A p \in Procs :
        (call[p].tool = "execute_query" /\ ContainsBlocked(call[p].args.query))
        => /\ ~Reached(p)
           /\ call[p].pc = "done" => call[p].result.isError

\* C2: a get_table_data call whose table or schema name is not an identifier
\* returns an error in every connection state, opens no connection and sends
\* no statement. (Any error payload counts as the validation error.)
C2_InvalidNameRejected ==
    \A p \in Procs :
        (call[p].tool = "get_table_data" /\ ~NamesValid(call[p].args))
        => /\ call[p].nNew = 0
           /\ call[p].nConnect = 0
           /\ ~Reached(p)
           /\ call[p].pc = "done" => call[p].result.isError

\* C3: every caller-supplied schema, table or procedure name interpolated
\* into a statement that reaches the driver is an identifier.
C3_InterpolatedNamesAreIdentifiers ==
    \A p \in Procs :
        Reached(p) =>
            \A i \in 1..Len(call[p].idents) : IsIdentifier(call[p].idents[i])

\* C4: identifier validation in get_table_data (part_001) passes exactly the
\* names made of one or more ASCII letters, digits and underscores: a call is
\* rejected for its names if and only if one of them is not such a name, and
\* only calls with such names go on to the driver.
C4_IdentifierValidation ==
    \A p \in Procs :
        call[p].tool = "get_table_data" =>
            /\ call[p].pc = "done" =>
                 (call[p].result.kind \in NameRejections <=> ~NamesValid(call[p].args))
            /\ call[p].nQuery > 0 => NamesValid(call[p].args)

\* C4 witness: a name of two characters passed validation and its statement
\* was executed
C4_Witness ==
    \E p \in Procs :
        /\ call[p].tool = "get_table_data"
        /\ call[p].pc = "done"
        /\ call[p].result.kind = "rows"
        /\ Len(call[p].args.tableName) >= 2

\* C5: get_table_data accepts an orderBy string exactly when the whole string
\* is a well-formed list of identifiers with optional ASC/DESC; any other
\* (non-empty) string is rejected and never interpolated into the statement.
C5_OrderByGrammar ==
    \A p \in Procs :
        (call[p].tool = "get_table_data" /\ ~Falsy(call[p].args.orderBy))
        => /\ call[p].nQuery > 0 => WellFormedOrderBy(call[p].args.orderBy)
           /\ call[p].result.kind = "invalid_order_by"
                => ~WellFormedOrderBy(call[p].args.orderBy)

\* C6: the configuration connect_database uses is a function of the process
\* environment only: whatever arguments the calls carry, any two pools
\* opened under one environment have the same server, credentials and port.
C6_ConfigFromEnvironmentOnly ==
    \A i, j \in DOMAIN pools :
        /\ pools[i].opts.server = pools[j].opts.server
        /\ pools[i].opts.user = pools[j].opts.user
        /\ pools[i].opts.password = pools[j].opts.password
        /\ pools[i].opts.port = pools[j].opts.port

\* the environment alone yields a configuration that passes validation
EnvironmentValid == ConfigValid(build, ConfigInput(build, NoArgs, env))

\* C7: an execution tool call arriving while no connection is established
\* connects from the environment configuration and executes; it does not
\* fail for lack of a connection.
C7_AutoConnect ==
    \A p \in Procs :
        (call[p].tool \in ExecutionTools /\ call[p].pc = "done" /\ EnvironmentValid)
        => call[p].result.kind # "no_connection"

\* C8 (as claimed): a connect request with unchanged configuration arriving
\* while the state is Connected reuses the pool handle: it returns success at
\* once, with no pool close and no new driver connect.
C8_ConnectReusesHandle ==
    [][\A p \in Procs :
         (/\ call[p].pc = "idle"
          /\ call'[p].tool = "connect_database"
          /\ Connected(pool)
          /\ ConfigValid(build, ConfigInput(build, call'[p].args, env))
          /\ ConfigSchema(ConfigInput(build, call'[p].args, env)) = config)
         => /\ call'[p].pc = "done"
            /\ ~call'[p].result.isError
            /\ call'[p].nClose = 0
            /\ pool' = pool
            /\ pools' = pools]_vars

\* C8 (amended): a connect request never reuses the handle. It makes at most
\* one driver connect, on a pool it created; one that returns success has
\* closed the pool stored before it (if any) exactly once and has made exactly
\* one driver connect, and the handle is the new, connected pool.
C8_ConnectReplacesPool ==
    \A p \in Procs :
        call[p].tool = "connect_database" =>
            /\ call[p].nConnect <= 1
            /\ call[p].nNew = call[p].nConnect
            /\ (call[p].pc = "done" /\ ~call[p].result.isError) =>
                 /\ call[p].nConnect = 1
                 /\ pool = call[p].target
                 /\ pool # call[p].prev
                 /\ Connected(pool)
                 /\ call[p].prev # 0 =>
                      /\ call[p].nClose = 1
                      /\ pools[call[p].prev].state = "closed"

\* C8 witness: a second connect request, made while a pool opened with the
\* same options was stored and connected, has returned success
C8_Witness ==
    \E p \in Procs :
        /\ build = V103
        /\ call[p].tool = "connect_database"
        /\ call[p].pc = "done"
        /\ ~call[p].result.isError
        /\ call[p].prev # 0
        /\ pools[call[p].prev].opts = pools[pool].opts

\* C9: a connect request whose driver connect fails returns an error payload
\* after exactly one driver connect attempt (no retry inside the call), and
\* nothing then prevents a later connect request from trying again.
C9_ConnectFailureReported ==
    \A p \in Procs :
        /\ call[p].tool = "connect_database" =>
             /\ call[p].nConnect <= 1
             /\ (call[p].pc = "done" /\ call[p].nConnect = 1
                 /\ ~Connected(call[p].target)) =>
                  /\ call[p].result.isError
                  /\ call[p].result.kind = "connect_failed"
        /\ (p = Main /\ call[p].pc = "idle" /\ Len(pools) < MaxPools) =>
             ENABLED connect_database(p)

\* C9 witness: a driver connect has failed and the call has returned
C9_Witness ==
    \E p \in Procs :
        /\ call[p].tool = "connect_database"
        /\ call[p].pc = "done"
        /\ call[p].result.kind = "connect_failed"
        /\ call[p].nConnect = 1

\* C10 (as claimed): disconnect_database always leaves the state
\* Disconnected: it returns success with the pool and the config cleared, and
\* connection_status then reports connected=false and server "Not configured".
C10_DisconnectAlwaysClears ==
    \A p \in Procs :
        (call[p].tool = "disconnect_database" /\ call[p].pc = "done") =>
            /\ ~call[p].result.isError
            /\ pool = 0
            /\ config = NoConfig
            /\ Status = [connected |-> FALSE, server |-> NotConfigured]

\* C10 (amended): disconnect_database asks the driver to close the stored
\* pool, if any, exactly once. When the close succeeds (or no pool was
\* stored) it returns success with pool and config cleared, and
\* connection_status reports connected=false and server "Not configured";
\* when the close rejects it returns an error and the pool stays stored.
\* Called with no pool stored it makes no driver call at all.
C10_DisconnectClears ==
    \A p \in Procs :
        (call[p].tool = "disconnect_database" /\ call[p].pc = "done") =>
            /\ call[p].nClose = (IF call[p].prev = 0 THEN 0 ELSE 1)
            /\ call[p].nNew + call[p].nConnect + call[p].nQuery + call[p].nRequest = 0
            /\ IF call[p].result.isError
               THEN /\ call[p].prev # 0
                    /\ pool = call[p].prev
                    /\ pools[pool].state # "closed"
               ELSE /\ pool = 0
                    /\ config = NoConfig
                    /\ Status = [connected |-> FALSE, server |-> NotConfigured]
                    /\ call[p].prev # 0 => pools[call[p].prev].state = "closed"

\* C10 witness: a stored pool was closed by disconnect_database
C10_Witness ==
    \E p \in Procs :
        /\ call[p].tool = "disconnect_database"
        /\ call[p].pc = "done"
        /\ ~call[p].result.isError
        /\ call[p].nClose = 1
        /\ pools[call[p].prev].state = "closed"

\* the pools the driver holds open: connecting or connected, not yet closed
OpenPools == {i \in DOMAIN pools : pools[i].state \in {"connecting", "connected"}}

\* C11: when a connect request replaces a pool, the close of the old pool has
\* completed before the new pool is created and connected; served one call
\* at a time, there is never more than one open pool, and every open pool is
\* the stored handle (a pool that is no longer the handle has been closed).
C11_OnePoolAtATime ==
    /\ Cardinality(OpenPools) <= 1
    /\ \A i \in OpenPools : i = pool
    /\ \A p \in Procs :
         (call[p].tool = "connect_database" /\ call[p].nNew > 0 /\ call[p].prev # 0)
         => pools[call[p].prev].state = "closed"

-----------------------------------------------------------------------------
(* Specification: a client that keeps the payloads it received. Calls are
   still served one at a time, but a finished call stays in its slot until
   the client drops it, so two calls of one session can be compared. *)

\* no other handler is between two of its awaits
Quiet(p) == \A q \in Procs \ {p} : call[q].pc \in {"idle", "done"}

InitSession == Init /\ build = V103 /\ env = EnvBase

NextSession ==
    \/ \E p \in Procs : Quiet(p) /\ connect_database(p)
    \/ \E p \in Procs : Quiet(p) /\ connect_closed(p)
    \/ \E p \in Procs : Quiet(p) /\ connect_connected(p)
    \/ \E p \in Procs : Quiet(p) /\ connect_failclosed(p)
    \/ \E p \in Procs : Quiet(p) /\ execute_query(p)
    \/ \E p \in Procs : Quiet(p) /\ query_settled(p)
    \/ \E p \in Procs : Quiet(p) /\ Return(p)

SpecSession == InitSession /\ [][NextSession]_vars

\* a read-only statement: its first word is SELECT
IsSelect(q) == Len(q) > 0 /\ UpperCase(q[1]) = "SELECT"

\* C12: of two identical SELECT calls (same text, same parameters) served on
\* the same connection one after the other, the second is answered from the
\* cache: at most one of the two makes a driver round trip.
C12_RepeatServedFromCache ==
    \A p, q \in Procs :
        (/\ p # q
         /\ call[p].tool = "execute_query" /\ call[q].tool = "execute_query"
         /\ call[p].pc = "done" /\ call[q].pc = "done"
         /\ call[p].result.kind = "rows" /\ call[q].result.kind = "rows"
         /\ call[p].args = call[q].args
         /\ call[p].target = call[q].target
         /\ IsSelect(call[p].args.query))
        => call[p].nQuery + call[q].nQuery <= 1

-----------------------------------------------------------------------------
\* the payloads of a handler's `return` after its work succeeded
SuccessKinds == {"connected", "disconnected", "status", "rows"}

\* the payloads built by a handler's catch block
ErrorKinds ==
    {"config", "connect_failed", "close_failed", "no_connection", "query_failed",
     "invalid_table_name", "invalid_schema_name", "invalid_order_by"}

\* C13: every tool call whose handler ran, in every connection state and for
\* every driver outcome, ends with a payload: either a success payload
\* without the error flag or a message with isError = true. The handler
\* never ends without a payload.
C13_AlwaysAPayload ==
    \A p \in Procs :
        (call[p].pc = "done" /\ call[p].result.kind # "invalid_params") =>
            \/ call[p].result.kind \in SuccessKinds /\ ~call[p].result.isError
            \/ call[p].result.kind \in ErrorKinds /\ call[p].result.isError

\* C13 witness: the driver's close rejected inside disconnect_database and
\* the call returned
C13_Witness ==
    \E p \in Procs :
        /\ call[p].tool = "disconnect_database"
        /\ call[p].pc = "done"
        /\ call[p].result.kind = "close_failed"

-----------------------------------------------------------------------------
\* an environment variable that is set to a non-empty string
IsSet(v) == v # Undefined /\ v # <<>>

\* the variable is set, and is not the decimal text of a number in lo..hi
OutOfRange(v, lo, hi) ==
    IsSet(v) /\ (parseInt(v) = NaN \/ Val(parseInt(v)) < lo \/ Val(parseInt(v)) > hi)

\* the environment holds an invalid configuration: server missing or empty,
\* port not a number in 1..65535, or a timeout outside its range
EnvironmentInvalid ==
    \/ ~IsSet(env.DB_SERVER)
    \/ OutOfRange(env.DB_PORT, MinPort, MaxPort)
    \/ OutOfRange(env.DB_CONNECTION_TIMEOUT, MinTimeout, MaxConnectionTimeout)
    \/ OutOfRange(env.DB_REQUEST_TIMEOUT, MinTimeout, MaxRequestTimeout)

\* C14: with an invalid environment configuration a connect request is
\* reported as an error before any driver call: it ends at once with an
\* error payload, creates no pool, attempts no connect and closes no pool.
C14_InvalidConfigNeverReachesDriver ==
    EnvironmentInvalid =>
        /\ pools = <<>>
        /\ pool = 0
        /\ \A p \in Procs :
             call[p].tool = "connect_database" =>
                 /\ call[p].pc = "done"
                 /\ call[p].result.isError
                 /\ call[p].result.kind = "config"
                 /\ call[p].nNew = 0 /\ call[p].nConnect = 0 /\ call[p].nClose = 0

\* C14 witness: a connect request was refused because the port in the
\* environment is outside 1..65535
C14_Witness ==
    \E p \in Procs :
        /\ call[p].tool = "connect_database"
        /\ call[p].pc = "done"
        /\ call[p].result.kind = "config"
        /\ IsSet(env.DB_SERVER)
        /\ OutOfRange(env.DB_PORT, MinPort, MaxPort)

-----------------------------------------------------------------------------
\* the limit and offset a get_table_data call works with, defaults applied
PageOf(a) == [limit |-> Val(Default(a.limit, Num(DefaultLimit))),
              offset |-> Val(Default(a.offset, Num(DefaultOffset)))]

\* 1 <= limit <= 10000 and offset >= 0
PageInBounds(a) ==
    /\ PageOf(a).limit >= MinLimit /\ PageOf(a).limit <= MaxLimit
    /\ PageOf(a).offset >= MinOffset

\* C15: every statement get_table_data sends was built from a limit in
\* 1..10000 and an offset >= 0; a call whose limit or offset is outside these
\* bounds sends no statement and ends with an error.
C15_PageBoundsChecked ==
    \A p \in Procs :
        (call[p].tool = "get_table_data" /\ ~PageInBounds(call[p].args)) =>
            /\ ~Reached(p)
            /\ call[p].pc = "done" => call[p].result.isError

-----------------------------------------------------------------------------
\* s begins with pre / s ends with suf
HasPrefix(s, pre) == Len(s) >= Len(pre) /\ SubSeq(s, 1, Len(pre)) = pre

HasSuffix(s, suf) ==
    Len(s) >= Len(suf) /\ SubSeq(s, Len(s) - Len(suf) + 1, Len(s)) = suf

\* the clauses of a paginated SELECT, in the order the statement needs them
FromClause(a) ==
    <<"SELECT * FROM [">> \o Default(a.schemaName, DefaultSchema) \o <<"].[">>
    \o a.tableName \o <<"]">>

WhereClause(a) ==
    IF a.whereClause \in {Undefined, <<>>} THEN <<>>
    ELSE <<" WHERE ">> \o a.whereClause

PageClause(a) ==
    <<" OFFSET ", ToString(PageOf(a).offset), " ROWS FETCH NEXT ",
      ToString(PageOf(a).limit), " ROWS ONLY">>

\* what lies between the FROM/WHERE part and the OFFSET/FETCH part
Between(s, a) ==
    SubSeq(s, Len(FromClause(a) \o WhereClause(a)) + 1, Len(s) - Len(PageClause(a)))

\* C16: every statement get_table_data sends is SELECT * FROM
\* [schema].[table], then WHERE <whereClause> only if one was given, then
\* exactly one ORDER BY clause (the caller's orderBy, or the default
\* expression when none was given), then OFFSET <offset> ROWS FETCH NEXT
\* <limit> ROWS ONLY as the last clause, with the caller's values.
C16_StatementShape ==
    \A p \in Procs :
        (call[p].tool = "get_table_data" /\ call[p].nQuery > 0) =>
            LET a == call[p].args
                s == call[p].stmt
            IN  /\ HasPrefix(s, FromClause(a) \o WhereClause(a))
                /\ HasSuffix(s, PageClause(a))
                /\ Len(s) > Len(FromClause(a) \o WhereClause(a)) + Len(PageClause(a))
                /\ Between(s, a) =
                     (IF a.orderBy \in {Undefined, <<>>}
                      THEN <<" ORDER BY (SELECT NULL)">>
                      ELSE <<" ORDER BY ">> \o a.orderBy)

\* C16 witness: a statement with a WHERE clause and no orderBy from the
\* caller went to the driver
C16_Witness ==
    \E p \in Procs :
        /\ call[p].tool = "get_table_data"
        /\ Reached(p)
        /\ call[p].args.orderBy = Undefined
        /\ call[p].args.whereClause \notin {Undefined, <<>>}

-----------------------------------------------------------------------------
(* Specification: pages of one table. The client keeps the pages it
   received; the table does not change. The claim's page of 10 rows is
   scaled to PageLen rows. *)

\* rows in a page
PageLen == 1

\* the rows of the table, each identified by its unique key column c
TableRows == 1..(2 * PageLen + 1)

\* get_table_data calls for the first and the second page, with and without
\* an orderBy on the key column
PageArgs ==
    {[TableArgs EXCEPT !.limit = Num(PageLen), !.offset = Num(o), !.orderBy = ob] :
        o \in {0, PageLen}, ob \in {Undefined, <<"c">>}}

get_table_data_page(p) == get_table_data_from(p, PageArgs)

\* every arrangement of the table's rows
Arrangements ==
    {f \in [1..Cardinality(TableRows) -> TableRows] :
        \A i, j \in DOMAIN f : i # j => f[i] # f[j]}

\* the arrangements the database may produce for a statement: ORDER BY c
\* sorts by the key, ORDER BY (SELECT NULL) sorts by a constant and so
\* leaves every arrangement possible
Orderings(stmt) ==
    IF \E k \in DOMAIN stmt : stmt[k] = " ORDER BY (SELECT NULL)"
    THEN Arrangements
    ELSE {f \in Arrangements : \A i, j \in DOMAIN f : i < j => f[i] < f[j]}

\* the number written at position k of the statement
NumberAt(stmt, k) == CHOOSE n \in 0..(Cardinality(TableRows) + PageLen) : ToString(n) = stmt[k]

\* OFFSET o ROWS FETCH NEXT l ROWS ONLY applied to an arrangement
Fetch(f, stmt) ==
    LET o == NumberAt(stmt, Len(stmt) - 3)
        l == NumberAt(stmt, Len(stmt) - 1)
        last == IF o + l <= Len(f) THEN o + l ELSE Len(f)
    IN  SubSeq(f, o + 1, last)

\* the driver settles the query of get_table_data with result.recordset
page_settled(p) ==
    /\ call[p].pc = "query_waiting"
    /\ call[p].tool = "get_table_data"
    /\ \/ /\ Connected(call[p].target)
          /\ \E f \in Orderings(call[p].stmt) :
               call' = [call EXCEPT ![p] =
                   Done(call[p], Result(FALSE, "rows", Fetch(f, call[p].stmt)))]
       \/ call' = [call EXCEPT ![p] = Failed(call[p], "query_failed")]
    /\ UNCHANGED <<build, env, pool, config, pools>>

NextPages ==
    \/ \E p \in Procs : Quiet(p) /\ connect_database(p)
    \/ \E p \in Procs : Quiet(p) /\ connect_connected(p)
    \/ \E p \in Procs : Quiet(p) /\ connect_failclosed(p)
    \/ \E p \in Procs : Quiet(p) /\ get_table_data_page(p)
    \/ \E p \in Procs : Quiet(p) /\ page_settled(p)
    \/ \E p \in Procs : Quiet(p) /\ Return(p)

SpecPages == InitSession /\ [][NextPages]_vars

Range(s) == {s[i] : i \in DOMAIN s}

\* C17: for the unchanged table, the page at offset 0 and the page at offset
\* PageLen of two otherwise identical get_table_data calls are disjoint, and
\* together they are the first 2 * PageLen rows of the table: listed in key
\* order when the caller ordered by the key, and 2 * PageLen different rows
\* when the default ordering was substituted.
C17_PagesPartition ==
    \A p, q \in Procs :
        (/\ call[p].tool = "get_table_data" /\ call[q].tool = "get_table_data"
         /\ call[p].pc = "done" /\ call[q].pc = "done"
         /\ call[p].result.kind = "rows" /\ call[q].result.kind = "rows"
         /\ call[p].args.offset = Num(0) /\ call[q].args.offset = Num(PageLen)
         /\ call[p].args = [call[q].args EXCEPT !.offset = Num(0)])
        => LET both == call[p].result.info \o call[q].result.info
           IN  /\ Range(call[p].result.info) \cap Range(call[q].result.info) = {}
               /\ Len(both) = 2 * PageLen
               /\ call[p].args.orderBy # Undefined =>
                    both = [i \in 1..(2 * PageLen) |-> i]

\* the same, for calls whose orderBy is the key column only
C17_KeyOrderedPagesPartition ==
    \A p, q \in Procs :
        (/\ call[p].tool = "get_table_data" /\ call[q].tool = "get_table_data"
         /\ call[p].pc = "done" /\ call[q].pc = "done"
         /\ call[p].result.kind = "rows" /\ call[q].result.kind = "rows"
         /\ call[p].args.offset = Num(0) /\ call[q].args.offset = Num(PageLen)
         /\ call[p].args = [call[q].args EXCEPT !.offset = Num(0)]
         /\ call[p].args.orderBy # Undefined)
        => call[p].result.info \o call[q].result.info = [i \in 1..(2 * PageLen) |-> i]

-----------------------------------------------------------------------------
\* v brought into lo..hi
Clamp(v, lo, hi) == IF v < lo THEN lo ELSE IF v > hi THEN hi ELSE v

\* the timeout an environment variable asks for: its number, or the default
\* when it is not set
TimeoutOf(v) == IF IsSet(v) THEN Val(parseInt(v)) ELSE DefaultTimeout

\* the environment is valid except that a timeout is a number outside its range
OnlyTimeoutsOutOfRange ==
    /\ IsSet(env.DB_SERVER)
    /\ ~OutOfRange(env.DB_PORT, MinPort, MaxPort)
    /\ parseInt(env.DB_CONNECTION_TIMEOUT) # NaN \/ ~IsSet(env.DB_CONNECTION_TIMEOUT)
    /\ parseInt(env.DB_REQUEST_TIMEOUT) # NaN \/ ~IsSet(env.DB_REQUEST_TIMEOUT)
    /\ \/ OutOfRange(env.DB_CONNECTION_TIMEOUT, MinTimeout, MaxConnectionTimeout)
       \/ OutOfRange(env.DB_REQUEST_TIMEOUT, MinTimeout, MaxRequestTimeout)

\* C18 (as claimed): the timeouts default to 30000 ms, and an environment
\* value outside its range is clamped into the range, so that the connect
\* request still creates a pool and attempts a connect with the clamped value.
C18_TimeoutsClamped ==
    \A p \in Procs :
        (call[p].tool = "connect_database" /\ call[p].pc = "done"
         /\ OnlyTimeoutsOutOfRange)
        => /\ call[p].nConnect = 1
           /\ pools[call[p].target].opts.connectionTimeout =
                Clamp(TimeoutOf(env.DB_CONNECTION_TIMEOUT), MinTimeout, MaxConnectionTimeout)
           /\ pools[call[p].target].opts.requestTimeout =
                Clamp(TimeoutOf(env.DB_REQUEST_TIMEOUT), MinTimeout, MaxRequestTimeout)

\* C18 (amended): every pool is opened with the timeouts the environment asks
\* for, 30000 ms each when the variable is unset, and these lie in
\* 1000..60000 and 1000..300000. A value outside its range is not clamped:
\* the connect request is refused with an error and attempts no connect.
C18_TimeoutsDefaultOrRefused ==
    /\ \A i \in DOMAIN pools :
         /\ pools[i].opts.connectionTimeout = TimeoutOf(env.DB_CONNECTION_TIMEOUT)
         /\ pools[i].opts.requestTimeout = TimeoutOf(env.DB_REQUEST_TIMEOUT)
         /\ pools[i].opts.connectionTimeout >= MinTimeout
         /\ pools[i].opts.connectionTimeout <= MaxConnectionTimeout
         /\ pools[i].opts.requestTimeout >= MinTimeout
         /\ pools[i].opts.requestTimeout <= MaxRequestTimeout
    /\ \A p \in Procs :
         (call[p].tool = "connect_database" /\ OnlyTimeoutsOutOfRange)
         => /\ call[p].pc = "done"
            /\ call[p].result.isError
            /\ call[p].nNew = 0 /\ call[p].nConnect = 0

\* C18 witness: a connect request was refused although only a timeout of the
\* environment is outside its range
C18_Witness ==
    \E p \in Procs :
        /\ call[p].tool = "connect_database"
        /\ call[p].pc = "done"
        /\ call[p].result.kind = "config"
        /\ OnlyTimeoutsOutOfRange

-----------------------------------------------------------------------------
\* C19: when DB_TRUST_SERVER_CERTIFICATE is not set, the certificate-trust
\* flag of every pool that is opened is true (the documented default); the
\* flag is false only when the variable is set to something other than true.
C19_TrustDefaultsToTrue ==
    \A i \in DOMAIN pools :
        /\ ~IsSet(env.DB_TRUST_SERVER_CERTIFICATE) =>
             pools[i].opts.trustServerCertificate = TRUE
        /\ pools[i].opts.trustServerCertificate = FALSE =>
             (IsSet(env.DB_TRUST_SERVER_CERTIFICATE)
              /\ env.DB_TRUST_SERVER_CERTIFICATE # <<"true">>)

-----------------------------------------------------------------------------
\* C20: every pool is opened with the encrypt option set to the negation of
\* trustServerCertificate, so that the two are never both on and never both
\* off.
C20_EncryptIsNotTrust ==
    \A i \in DOMAIN pools :
        pools[i].opts.encrypt = Bool(~pools[i].opts.trustServerCertificate)

-----------------------------------------------------------------------------
(* Specification: shutdown. Handlers run concurrently: a signal or a second
   tool call may arrive while a handler waits at an await. A slot of `call`
   holds the shutdown handler like any other handler; pc = "exited" says the
   process has ended there. *)

\* what ends the process: signals, and faults nobody caught
Triggers == {"SIGINT", "SIGTERM", "uncaughtException", "unhandledRejection"}

\* process.on(trigger, ...) is registered: all four in part_001, SIGINT alone
\* in index.ts
Handled(b, trigger) == b = V103 \/ trigger = "SIGINT"

\* the process has not ended
Alive == \A q \in Procs : call[q].pc # "exited"

\* a trigger arrives: the registered handler runs up to its await, or to
\* process.exit(0) when no pool is stored; an unregistered trigger ends the
\* process at once (the runtime's default)
shutdown(p) ==
    /\ call[p].pc = "idle"
    /\ \E trigger \in Triggers :
         LET c == Begin("shutdown", [trigger |-> trigger])
         IN  IF Handled(build, trigger) /\ pool # 0
             THEN call' = [call EXCEPT ![p] =
                      [c EXCEPT !.pc = "shutdown_closing", !.target = pool,
                                !.nClose = 1]]
             ELSE call' = [call EXCEPT ![p] = [c EXCEPT !.pc = "exited"]]
    /\ UNCHANGED <<build, env, pool, config, pools>>

\* a shutdown whose process.exit(0) is skipped when the close rejects
shutdown_closed_Stuck(p) ==
    /\ call[p].pc = "shutdown_closing"
    /\ \E ok \in BOOLEAN :
         /\ pools' = CloseSettled(pools, call[p].target, ok)
         /\ call' = [call EXCEPT ![p] =
                [call[p] EXCEPT !.pc = IF ok THEN "exited" ELSE "shutdown_failed"]]
    /\ UNCHANGED <<build, env, pool, config>>

\* `await this.pool.close()` of the shutdown handler settles. part_001 catches
\* a rejection and goes on to process.exit(0); index.ts lets it escape the
\* async handler, and the runtime (node >= 18) ends the process on the
\* unhandled rejection.
shutdown_closed(p) ==
    /\ call[p].pc = "shutdown_closing"
    /\ \E ok \in BOOLEAN :
         pools' = CloseSettled(pools, call[p].target, ok)
    /\ call' = [call EXCEPT ![p] = [call[p] EXCEPT !.pc = "exited"]]
    /\ UNCHANGED <<build, env, pool, config>>

InitShutdown == Init /\ env = EnvBase

NextShutdown ==
    \/ \E p \in Procs : Alive /\ connect_database(p)
    \/ \E p \in Procs : Alive /\ connect_closed(p)
    \/ \E p \in Procs : Alive /\ connect_connected(p)
    \/ \E p \in Procs : Alive /\ connect_failclosed(p)
    \/ \E p \in Procs : Alive /\ shutdown(p)
    \/ \E p \in Procs : Alive /\ shutdown_closed(p)
    \/ \E p \in Procs : Alive /\ Return(p)

SpecShutdown == InitShutdown /\ [][NextShutdown]_vars

\* C21: on every shutdown trigger, a stored pool is asked to close and that
\* close has finished before the process exits: whenever the process has
\* ended, the pool that is stored (if any) is the one the shutdown closed.
C21_PoolClosedBeforeExit ==
    \A p \in Procs :
        (call[p].pc = "exited" /\ pool # 0) =>
            /\ call[p].nClose = 1
            /\ call[p].target = pool

-----------------------------------------------------------------------------
(* Specification: concurrent execution calls. Two handlers may both be
   waiting for the driver on the same pool. *)

\* calls that differ in the parameters they carry
execute_query_bind(p) ==
    execute_query_from(p, {[query |-> <<"SELECT">>, parameters |-> ps] :
                              ps \in {Undefined, Params({"p"})}})

get_table_data_bind(p) ==
    get_table_data_from(p, {[TableArgs EXCEPT !.whereClause = w,
                                              !.parameters = Params({"p"})] :
                               w \in SampleWheres})

execute_procedure_bind(p) ==
    execute_procedure_from(p, {[procedureName |-> <<"a">>, schemaName |-> Undefined,
                                parameters |-> ps] :
                                  ps \in {Params({}), Params({"p"})}})

NextRequests ==
    \/ \E p \in Procs : Quiet(p) /\ connect_database(p)
    \/ \E p \in Procs : Quiet(p) /\ connect_connected(p)
    \/ \E p \in Procs : Quiet(p) /\ connect_failclosed(p)
    \/ \E p \in Procs : execute_query_bind(p)
    \/ \E p \in Procs : get_table_data_bind(p)
    \/ \E p \in Procs : execute_procedure_bind(p)
    \/ \E p \in Procs : query_settled(p)
    \/ \E p \in Procs : Return(p)

SpecRequests == InitSession /\ [][NextRequests]_vars

\* the tools that bind caller parameters onto a request
BindingTools == {"execute_query", "get_table_data", "execute_procedure"}

\* the parameter names the caller supplied with the call
Supplied(a) == IF a.parameters = Undefined THEN {} ELSE a.parameters[2]

\* C22 (as claimed): under any interleaving, the parameters bound to the
\* request a call executes are exactly the parameters supplied to that call.
C22_BoundEqualsSupplied ==
    \A p \in Procs :
        (call[p].tool \in BindingTools /\ Reached(p)) =>
            call[p].bound = Supplied(call[p].args)

\* C22 (amended): under any interleaving, each call executes a request it
\* created itself, once, and the parameters bound to it are parameters of
\* that call only: all of them for execute_query and execute_procedure and
\* for a get_table_data call with a whereClause, none of them for a
\* get_table_data call without a whereClause.
C22_BoundIsOwn ==
    \A p \in Procs :
        (call[p].tool \in BindingTools /\ call[p].nQuery > 0) =>
            /\ call[p].nRequest = 1
            /\ call[p].bound =
                 (IF call[p].tool = "get_table_data"
                     /\ call[p].args.whereClause \in {Undefined, <<>>}
                  THEN {} ELSE Supplied(call[p].args))

\* C22 witness: two calls wait for the driver on the same pool at the same
\* time, one with a parameter bound and one with none
C22_Witness ==
    \E p, q \in Procs :
        /\ p # q
        /\ call[p].pc = "query_waiting" /\ call[q].pc = "query_waiting"
        /\ call[p].target = call[q].target
        /\ call[p].tool = "execute_query" /\ call[q].tool = "execute_procedure"
        /\ call[p].bound = {"p"} /\ call[q].bound = {}

\* ---------------------------------------------------------------------
\* C23: when get_table_data rejects an orderBy, the rejection comes before
\* any use of the driver: the call has obtained no request object from
\* the pool and has bound no parameter on one.
C23_OrderByRejectedBeforeDriver ==
    \A p \in Procs :
        (call[p].tool = "get_table_data"
            /\ call[p].result.kind = "invalid_order_by") =>
            /\ call[p].nRequest = 0
            /\ call[p].bound = {}

\* ---------------------------------------------------------------------
\* Overlapping connect_database calls: a call arrives while no other call
\* is waiting to be returned, so that two calls that have both finished
\* were in flight together.
Overlapping(p) == \A q \in Procs \ {p} : call[q].pc # "done"

NextConnects ==
    \/ \E p \in Procs : Overlapping(p) /\ connect_database(p)
    \/ \E p \in Procs : connect_closed(p)
    \/ \E p \in Procs : connect_connected(p)
    \/ \E p \in Procs : connect_failclosed(p)
    \/ \E p \in Procs : Return(p)

SpecConnects == InitShutdown /\ [][NextConnects]_vars

\* two connect_database calls have finished and none is in flight
BothReturned ==
    /\ \A p \in Procs : call[p].pc \in {"idle", "done"}
    /\ \E p, q \in Procs :
         /\ p # q
         /\ call[p].tool = "connect_database" /\ call[p].pc = "done"
         /\ call[q].tool = "connect_database" /\ call[q].pc = "done"

\* C24: after two concurrent connect_database calls have both returned,
\* every pool that was created and is not the stored handle is closed, the
\* stored handle is not a closed pool, and a configuration is stored only
\* if a pool is stored.
C24_ConcurrentConnectsLeaveOnePool ==
    BothReturned =>
        /\ \A id \in 1..Len(pools) : id # pool => pools[id].state = "closed"
        /\ pool # 0 => pools[pool].state # "closed"
        /\ config # NoConfig => pool # 0

\* ---------------------------------------------------------------------
\* connect() itself threw: the close of the old pool or the connect of the
\* new one failed
ConnectFailures == {"close_failed", "connect_failed"}

\* C25: in a sequential run of connect and disconnect calls, whenever no
\* call is in flight the pool and the configuration are both null, or both
\* set with the pool opened from that configuration; and after a connect
\* that failed neither is retained.
C25_PoolAndConfigAgree ==
    (\A p \in Procs : call[p].pc \in {"idle", "done"}) =>
        /\ \/ pool = 0 /\ config = NoConfig
           \/ /\ pool # 0
              /\ config # NoConfig
              /\ pools[pool].opts = PoolOptions(build, config)
        /\ \A p \in Procs :
             (call[p].tool = "connect_database" /\ call[p].pc = "done"
                 /\ call[p].result.kind \in ConnectFailures) =>
                 pool = 0 /\ config = NoConfig

\* ---------------------------------------------------------------------
\* Specification: shutdown triggers arriving at any moment of a run of
\* connect_database calls. The driver settles every close it is asked for:
\* a shutdown that waits for pool.close() is resumed.
NextExit ==
    \/ Alive /\ connect_database(Main)
    \/ Alive /\ connect_closed(Main)
    \/ Alive /\ connect_connected(Main)
    \/ Alive /\ connect_failclosed(Main)
    \/ \E p \in Procs : Alive /\ shutdown(p)
    \/ \E p \in Procs : Alive /\ shutdown_closed(p)
    \/ Alive /\ Return(Main)

SpecExit ==
    /\ InitShutdown
    /\ [][NextExit]_vars
    /\ WF_vars(\E p \in Procs : Alive /\ shutdown_closed(p))

ShutdownReceived == \E p \in Procs : call[p].tool = "shutdown"

Exited == \E p \in Procs : call[p].pc = "exited"

\* C26: once a shutdown trigger has been received the process eventually
\* exits, given that the close of the pool settles; a close that fails does
\* not keep the process alive.
C26_ShutdownExits == ShutdownReceived ~> Exited

\* the process has exited although the close asked for by the shutdown
\* failed
C26_Witness ==
    \E p \in Procs :
        /\ call[p].tool = "shutdown"
        /\ call[p].pc = "exited"
        /\ call[p].nClose = 1
        /\ pools[call[p].target].state = "connected"

\* ---------------------------------------------------------------------
\* C27: the parametersUsed figure in the metadata of a get_table_data
\* payload equals the number of parameters that were bound to the request,
\* whether whereClause and parameters are present or absent.
C27_ParametersUsedIsBound ==
    \A p \in Procs :
        (call[p].tool = "get_table_data" /\ call[p].pc = "done"
            /\ call[p].result.kind = "rows") =>
            call[p].result.info.metadata.parametersUsed
                = Cardinality(call[p].bound)

-----------------------------------------------------------------------------
(* Specification: tool calls and reads of the connection-info resource, served
   one at a time *)

\* the object the connection-info resource serialises
ConnectionInfo ==
    [connected |-> Connected(pool),
     config |-> IF config = NoConfig THEN NoConfig
                ELSE [server |-> config.server, port |-> config.port]]

\* the read callback of the resource mssql://connection/info
connection_info(p) ==
    /\ call[p].pc = "idle"
    /\ call' = [call EXCEPT ![p] =
           Done(Begin("connection-info", <<>>), Result(FALSE, "info", ConnectionInfo))]
    /\ UNCHANGED <<build, env, pool, config, pools>>

NextFrame ==
    \/ connect_database(Main)
    \/ connect_closed(Main)
    \/ connect_connected(Main)
    \/ connect_failclosed(Main)
    \/ disconnect_database(Main)
    \/ disconnect_closed(Main)
    \/ connection_status(Main)
    \/ execute_query(Main)
    \/ get_schema(Main)
    \/ describe_table(Main)
    \/ get_table_data(Main)
    \/ execute_procedure(Main)
    \/ list_databases(Main)
    \/ query_settled(Main)
    \/ connection_info(Main)
    \/ Return(Main)

SpecFrame == Init /\ [][NextFrame]_vars

\* the operations that may assign this.pool and this.config
Writers == {"connect_database", "disconnect_database"}

\* C28: the stored pool and the stored configuration are changed only by
\* connect_database and disconnect_database: every step of every other tool
\* and of the connection-info resource leaves both as they were, and a
\* connect_database that fails the validation of its configuration leaves
\* the pool, the configuration and the driver's pools as they were.
C28_OnlyConnectAndDisconnectWrite ==
    [][/\ (pool' # pool \/ config' # config) =>
             \E p \in Procs : call'[p] # call[p] /\ call'[p].tool \in Writers
       /\ \A p \in Procs :
             (call[p].pc = "idle" /\ call'[p].tool = "connect_database"
                 /\ call'[p].result.kind = "config") =>
                 pool' = pool /\ config' = config /\ pools' = pools]_vars

\* a query of an execution tool failed while a connection was held: the
\* pool and its configuration are still stored
C28_Witness ==
    \E p \in Procs :
        /\ call[p].pc = "done"
        /\ call[p].tool \in ExecutionTools
        /\ call[p].result.kind = "query_failed"
        /\ Connected(pool)
        /\ config # NoConfig
        /\ pools[pool].opts = PoolOptions(build, config)

====
